---- MODULE Spec2Model ----
(***************************************************************************)
(* Model of BaseFilter (planner/filter/base_filter.rs): the compiler of    *)
(* one filter node into one SQL boolean fragment.                          *)
(*                                                                         *)
(* Strings are sequences of characters, every character a one-element      *)
(* TLA+ string, so that the regular expressions, the byte-length tests and *)
(* the format! calls of the date normaliser are computed, not assumed.     *)
(* The external collaborators (expression evaluator, template set,         *)
(* parameter allocator, timezone conversion) are symbolic: a template call *)
(* is logged with the arguments it receives and yields an opaque           *)
(* "rendered" token; the evaluator and the templates are total here, the   *)
(* timezone conversion may fail.                                           *)
(***************************************************************************)
EXTENDS Integers, Sequences, FiniteSets, TLC

VARIABLES nodes, params, precision, ncalls, last, fmt

vars == <<nodes, params, precision, ncalls, last, fmt>>

(* ---------------------------- bounds ----------------------------------- *)
MaxVals == 4
MaxCalls == 2
MaxNodes == 2

(* ---------------------------- characters ------------------------------- *)
\* A decimal digit outside ASCII (ARABIC-INDIC DIGIT THREE, U+0663): the
\* regex class \d is Unicode-aware and matches it; it takes 2 bytes in UTF-8.
ArabicThree == "U+0663"

AsciiDigits == {"0", "1", "2", "3", "4", "5", "6", "9"}

IsDigit(c) == c \in AsciiDigits \cup {ArabicThree}

CharBytes(c) == IF c = ArabicThree THEN 2 ELSE 1

RECURSIVE ByteLen(_)
ByteLen(s) == IF s = <<>> THEN 0 ELSE CharBytes(Head(s)) + ByteLen(Tail(s))

Repeat(c, n) == [i \in 1..n |-> c]

EndsWith(s, suffix) ==
    /\ Len(s) >= Len(suffix)
    /\ SubSeq(s, Len(s) - Len(suffix) + 1, Len(s)) = suffix

(* ---------------------------- regular expressions ---------------------- *)
DATE_RE == <<"\\d", "\\d", "\\d", "\\d", "-", "\\d", "\\d", "-", "\\d", "\\d">>

DATE_TIME_LOCAL_MS_RE ==
    DATE_RE \o <<"T", "\\d", "\\d", ":", "\\d", "\\d", ":", "\\d", "\\d",
                 ".", "\\d", "\\d", "\\d">>

DATE_TIME_LOCAL_U_RE == DATE_TIME_LOCAL_MS_RE \o <<"\\d", "\\d", "\\d">>

\* Regex::is_match for the anchored, fixed-length patterns above.
is_match(re, s) ==
    /\ Len(s) = Len(re)
    /\ \A i \in 1..Len(re) :
          IF re[i] = "\\d" THEN IsDigit(s[i]) ELSE s[i] = re[i]

(* ---------------------------- literals --------------------------------- *)
Date == <<"2", "0", "2", "3", "-", "0", "1", "-", "0", "5">>
TimeMs999 == Date \o <<"T", "1", "0", ":", "0", "0", ":", "0", "0", ".", "9", "9", "9">>
TimeMs123 == Date \o <<"T", "1", "0", ":", "0", "0", ":", "0", "0", ".", "1", "2", "3">>
TimeUs == TimeMs123 \o <<"4", "5", "6">>
NextWeek == <<"n", "e", "x", "t", " ", "w", "e", "e", "k">>
Unbounded == <<"u", "n", "b", "o", "u", "n", "d", "e", "d">>
TwoDay == <<"2", " ", "d", "a", "y">>

\* Option<String>
None == [some |-> FALSE, s |-> <<>>]
Some(s) == [some |-> TRUE, s |-> s]

(* ---------------------------- errors ----------------------------------- *)
ErrNone == "ok"
ErrOneParam == "Expected one parameter but nothing found"
ErrDateArgCount == "2 arguments expected for date range, got {}"
ErrDateArgInvalid == "Arguments for date range is not valid"
ErrPrecision == "Unsupported timestamp precision: {}"
ErrDateFormat == "Unsupported date format: {}"
ErrTimeZone == "in_db_time_zone failed"

(* ---------------------------- date normaliser -------------------------- *)
FmtOk(s) == [ok |-> TRUE, err |-> ErrNone, s |-> s]
FmtErr(e) == [ok |-> FALSE, err |-> e, s |-> <<>>]

format_from_date(date, prec) ==
    LET bare == IF is_match(DATE_RE, date)
                THEN FmtOk(date \o <<"T", "0", "0", ":", "0", "0", ":", "0", "0", ".">>
                                \o Repeat("0", prec))
                ELSE FmtErr(ErrDateFormat)
    IN  IF prec = 3
        THEN IF is_match(DATE_TIME_LOCAL_MS_RE, date) THEN FmtOk(date) ELSE bare
        ELSE IF prec = 6
        THEN IF ByteLen(date) = 23 /\ is_match(DATE_TIME_LOCAL_MS_RE, date)
             THEN FmtOk(date \o <<"0", "0", "0">>)
             ELSE IF ByteLen(date) = 26 /\ is_match(DATE_TIME_LOCAL_U_RE, date)
             THEN FmtOk(date)
             ELSE bare
        ELSE FmtErr(ErrPrecision)

format_to_date(date, prec) ==
    LET bare == IF is_match(DATE_RE, date)
                THEN FmtOk(date \o <<"T", "2", "3", ":", "5", "9", ":", "5", "9", ".">>
                                \o Repeat("9", prec))
                ELSE FmtErr(ErrDateFormat)
    IN  IF prec = 3
        THEN IF is_match(DATE_TIME_LOCAL_MS_RE, date) THEN FmtOk(date) ELSE bare
        ELSE IF prec = 6
        THEN IF ByteLen(date) = 23 /\ is_match(DATE_TIME_LOCAL_MS_RE, date)
             THEN IF EndsWith(date, <<".", "9", "9", "9">>)
                  THEN FmtOk(date \o <<"9", "9", "9">>)
                  ELSE FmtOk(date \o <<"0", "0", "0">>)
             ELSE IF ByteLen(date) = 26 /\ is_match(DATE_TIME_LOCAL_U_RE, date)
             THEN FmtOk(date)
             ELSE bare
        ELSE FmtErr(ErrPrecision)

(* ---------------------------- external collaborators ------------------- *)
\* A SQL-text token: k tells where the text comes from.
\*   "member"   the resolved member SQL          (s = <<member>>)
\*   "param"    an allocated placeholder          (n = its index)
\*   "tsparam"  a placeholder with ::timestamptz  (n = its index)
\*   "null"     the NULL keyword
\*   "raw"      a literal of values, verbatim     (s = the literal)
\*   "rendered" the output of a template renderer (s = <<renderer>>, n = call)
\*   "text"     text written by the compiler itself
Tok(k, s, n) == [k |-> k, s |-> s, n |-> n]

\* evaluate_with_context: the member's SQL text.
evaluate_with_context(member) == Tok("member", <<member>>, 0)

\* QueryTools::allocate_param: registers the literal, returns its placeholder.
allocate_param(ps, param) ==
    [params |-> Append(ps, param), tok |-> Tok("param", <<>>, Len(ps))]

\* format!("{}::timestamptz", placeholder)
allocate_timestamp_param(ps, param) ==
    LET a == allocate_param(ps, param)
    IN  [params |-> a.params, tok |-> Tok("tsparam", <<>>, a.tok.n)]

\* BaseTools::in_db_time_zone: the local timestamp converted to the database
\* time zone (a text that is not the input).
in_db_time_zone(s) == <<"@db">> \o s

\* Result of a compile step: the fragment, the allocator after it and the
\* template calls made so far.
ROk(out, ps, calls) ==
    [ok |-> TRUE, err |-> ErrNone, got |-> 0, out |-> out, params |-> ps, calls |-> calls]
RErr(e, got, ps, calls) ==
    [ok |-> FALSE, err |-> e, got |-> got, out |-> <<>>, params |-> ps, calls |-> calls]

\* FilterTemplates::<fn>(args..., flags...): logs the call, yields its output.
Template(fn, args, flags, ps, calls) ==
    ROk(<<Tok("rendered", <<fn>>, Len(calls) + 1)>>, ps,
        Append(calls, [fn |-> fn, args |-> args, flags |-> flags]))

(* ---------------------------- value model ------------------------------ *)
FilterOperator ==
    {"Equal", "NotEqual", "InDateRange", "InDateRangeExtended", "In", "NotIn",
     "Set", "NotSet", "Gt", "Gte", "Lt", "Lte", "Contains", "NotContains",
     "StartsWith", "NotStartsWith", "EndsWith", "NotEndsWith"}

FilterType == {"Dimension", "Measure"}

BaseFilter(member, ft, op, vals) ==
    [member_evaluator |-> member, filter_type |-> ft,
     filter_operator |-> op, values |-> vals]

\* Mutant: the derived node keeps the source's values.
change_operator_keeps_values(self, op, vals) ==
    BaseFilter(self.member_evaluator, self.filter_type, op, self.values)

change_operator(self, op, vals) ==
    BaseFilter(self.member_evaluator, self.filter_type, op, vals)

values(self) == self.values

filter_operator(self) == self.filter_operator

is_values_contains_null(self) ==
    \E i \in 1..Len(self.values) : ~self.values[i].some

\* Mutant: a single value already counts as an array.
is_array_value_nonempty(self) == Len(self.values) > 0

is_array_value(self) == Len(self.values) > 1

\* Mutant: the polarity of the operator is ignored.
is_need_null_chek_ignores_not(self, is_not) == is_values_contains_null(self)

is_need_null_chek(self, is_not) ==
    LET contains_null == is_values_contains_null(self)
    IN  IF is_not THEN ~contains_null ELSE contains_null

\* values.iter().filter_map(|v| v.as_ref().map(|v| allocate_param(v))).collect()
RECURSIVE filter_and_allocate(_, _)
filter_and_allocate(vs, ps) ==
    IF vs = <<>> THEN [params |-> ps, toks |-> <<>>]
    ELSE IF Head(vs).some
         THEN LET a == allocate_param(ps, Head(vs).s)
                  r == filter_and_allocate(Tail(vs), a.params)
              IN  [params |-> r.params, toks |-> <<a.tok>> \o r.toks]
         ELSE filter_and_allocate(Tail(vs), ps)

\* Mutant: None elements are allocated like the others.
filter_and_allocate_values_keeps_none(self, ps) ==
    [params |-> ps \o [i \in 1..Len(self.values) |-> self.values[i].s],
     toks |-> [i \in 1..Len(self.values) |-> Tok("param", <<>>, Len(ps) + i - 1)]]

filter_and_allocate_values(self, ps) == filter_and_allocate(self.values, ps)

\* Mutant: an empty list yields NULL instead of the error.
first_param_null_on_empty(self, ps) ==
    IF self.values # <<>> /\ self.values[1].some
    THEN LET a == allocate_param(ps, self.values[1].s)
         IN  [ok |-> TRUE, params |-> a.params, tok |-> a.tok]
    ELSE [ok |-> TRUE, params |-> ps, tok |-> Tok("null", <<>>, 0)]

\* Mutant: the literal is inlined instead of allocated.
first_param_inlines_literal(self, ps) ==
    IF self.values = <<>>
    THEN [ok |-> FALSE, params |-> ps, tok |-> Tok("null", <<>>, 0)]
    ELSE IF self.values[1].some
         THEN [ok |-> TRUE, params |-> ps, tok |-> Tok("raw", self.values[1].s, 0)]
         ELSE [ok |-> TRUE, params |-> ps, tok |-> Tok("null", <<>>, 0)]

first_param(self, ps) ==
    IF self.values = <<>>
    THEN [ok |-> FALSE, params |-> ps, tok |-> Tok("null", <<>>, 0)]
    ELSE IF self.values[1].some
         THEN LET a == allocate_param(ps, self.values[1].s)
              IN  [ok |-> TRUE, params |-> a.params, tok |-> a.tok]
         ELSE [ok |-> TRUE, params |-> ps, tok |-> Tok("null", <<>>, 0)]

(* ---------------------------- filter compiler -------------------------- *)
equals_where(self, member_sql, ps) ==
    LET need_null_check == is_need_null_chek(self, FALSE)
    IN  IF is_array_value(self)
        THEN LET a == filter_and_allocate_values(self, ps)
             IN  Template("in_where", <<member_sql>> \o a.toks, <<need_null_check>>,
                          a.params, <<>>)
        ELSE IF is_values_contains_null(self)
        THEN Template("not_set_where", <<member_sql>>, <<>>, ps, <<>>)
        ELSE LET p == first_param(self, ps)
             IN  IF ~p.ok THEN RErr(ErrOneParam, 0, p.params, <<>>)
                 ELSE Template("equals", <<member_sql, p.tok>>, <<need_null_check>>,
                               p.params, <<>>)

not_equals_where(self, member_sql, ps) ==
    LET need_null_check == is_need_null_chek(self, TRUE)
    IN  IF is_array_value(self)
        THEN LET a == filter_and_allocate_values(self, ps)
             IN  Template("not_in_where", <<member_sql>> \o a.toks, <<need_null_check>>,
                          a.params, <<>>)
        ELSE IF is_values_contains_null(self)
        THEN Template("set_where", <<member_sql>>, <<>>, ps, <<>>)
        ELSE LET p == first_param(self, ps)
             IN  IF ~p.ok THEN RErr(ErrOneParam, 0, p.params, <<>>)
                 ELSE Template("not_equals", <<member_sql, p.tok>>, <<need_null_check>>,
                               p.params, <<>>)

DErr(e, got, ps) ==
    [ok |-> FALSE, err |-> e, got |-> got, params |-> ps,
     from |-> Tok("null", <<>>, 0), to |-> Tok("null", <<>>, 0)]

\* Mutant: the argument count must exceed 2.
allocate_date_params_more_than_two(self, ps, prec, tzFail) ==
    IF Len(self.values) > 2
    THEN IF ~self.values[1].some THEN DErr(ErrDateArgInvalid, 0, ps)
         ELSE LET f == format_from_date(self.values[1].s, prec)
         IN  IF ~f.ok THEN DErr(f.err, 0, ps)
             ELSE IF "from" \in tzFail THEN DErr(ErrTimeZone, 0, ps)
             ELSE IF ~self.values[2].some THEN DErr(ErrDateArgInvalid, 0, ps)
             ELSE LET t == format_to_date(self.values[2].s, prec)
             IN  IF ~t.ok THEN DErr(t.err, 0, ps)
                 ELSE IF "to" \in tzFail THEN DErr(ErrTimeZone, 0, ps)
                 ELSE LET from == allocate_timestamp_param(ps, in_db_time_zone(f.s))
                          to == allocate_timestamp_param(from.params, in_db_time_zone(t.s))
                      IN  [ok |-> TRUE, err |-> ErrNone, got |-> 0, params |-> to.params,
                           from |-> from.tok, to |-> to.tok]
    ELSE DErr(ErrDateArgCount, Len(self.values), ps)

\* Mutant: the from bound is allocated as soon as it is converted.
allocate_date_params_eager(self, ps, prec, tzFail) ==
    IF Len(self.values) >= 2
    THEN IF ~self.values[1].some THEN DErr(ErrDateArgInvalid, 0, ps)
         ELSE LET f == format_from_date(self.values[1].s, prec)
         IN  IF ~f.ok THEN DErr(f.err, 0, ps)
             ELSE IF "from" \in tzFail THEN DErr(ErrTimeZone, 0, ps)
             ELSE LET from == allocate_timestamp_param(ps, in_db_time_zone(f.s))
             IN  IF ~self.values[2].some THEN DErr(ErrDateArgInvalid, 0, from.params)
                 ELSE LET t == format_to_date(self.values[2].s, prec)
                 IN  IF ~t.ok THEN DErr(t.err, 0, from.params)
                     ELSE IF "to" \in tzFail THEN DErr(ErrTimeZone, 0, from.params)
                     ELSE LET to == allocate_timestamp_param(from.params,
                                                             in_db_time_zone(t.s))
                          IN  [ok |-> TRUE, err |-> ErrNone, got |-> 0,
                               params |-> to.params, from |-> from.tok, to |-> to.tok]
    ELSE DErr(ErrDateArgCount, Len(self.values), ps)

\* tzFail: the bounds ("from", "to") whose in_db_time_zone conversion fails.
allocate_date_params(self, ps, prec, tzFail) ==
    IF Len(self.values) >= 2
    THEN IF ~self.values[1].some THEN DErr(ErrDateArgInvalid, 0, ps)
         ELSE LET f == format_from_date(self.values[1].s, prec)
         IN  IF ~f.ok THEN DErr(f.err, 0, ps)
             ELSE IF "from" \in tzFail THEN DErr(ErrTimeZone, 0, ps)
             ELSE IF ~self.values[2].some THEN DErr(ErrDateArgInvalid, 0, ps)
             ELSE LET t == format_to_date(self.values[2].s, prec)
             IN  IF ~t.ok THEN DErr(t.err, 0, ps)
                 ELSE IF "to" \in tzFail THEN DErr(ErrTimeZone, 0, ps)
                 ELSE LET from == allocate_timestamp_param(ps, in_db_time_zone(f.s))
                          to == allocate_timestamp_param(from.params, in_db_time_zone(t.s))
                      IN  [ok |-> TRUE, err |-> ErrNone, got |-> 0, params |-> to.params,
                           from |-> from.tok, to |-> to.tok]
    ELSE DErr(ErrDateArgCount, Len(self.values), ps)

in_date_range(self, member_sql, ps, prec, tzFail) ==
    LET d == allocate_date_params(self, ps, prec, tzFail)
    IN  IF ~d.ok THEN RErr(d.err, d.got, d.params, <<>>)
        ELSE Template("time_range_filter", <<member_sql, d.from, d.to>>, <<>>,
                      d.params, <<>>)

\* Mutant: the "unbounded" sentinel is not recognised.
extend_date_range_bound_no_sentinel(date, interval, is_sub, ps, calls) ==
    IF interval.some
    THEN IF is_sub
         THEN Template("sub_interval", <<date, Tok("raw", interval.s, 0)>>, <<>>, ps, calls)
         ELSE Template("add_interval", <<date, Tok("raw", interval.s, 0)>>, <<>>, ps, calls)
    ELSE ROk(<<date>>, ps, calls)

extend_date_range_bound(date, interval, is_sub, ps, calls) ==
    IF interval.some
    THEN IF interval.s # Unbounded
         THEN IF is_sub
              THEN Template("sub_interval", <<date, Tok("raw", interval.s, 0)>>, <<>>,
                            ps, calls)
              ELSE Template("add_interval", <<date, Tok("raw", interval.s, 0)>>, <<>>,
                            ps, calls)
         ELSE ROk(<<date>>, ps, calls)
    ELSE ROk(<<date>>, ps, calls)

in_date_range_extended(self, member_sql, ps, prec, tzFail) ==
    LET d == allocate_date_params(self, ps, prec, tzFail)
    IN  IF ~d.ok THEN RErr(d.err, d.got, d.params, <<>>)
        ELSE LET from == IF Len(self.values) >= 3
                         THEN extend_date_range_bound(d.from, self.values[3], TRUE,
                                                      d.params, <<>>)
                         ELSE ROk(<<d.from>>, d.params, <<>>)
                 to == IF Len(self.values) >= 4
                       THEN extend_date_range_bound(d.to, self.values[4], FALSE,
                                                    from.params, from.calls)
                       ELSE ROk(<<d.to>>, from.params, from.calls)
             IN  Template("time_range_filter", <<member_sql, from.out[1], to.out[1]>>,
                          <<>>, to.params, to.calls)

in_where(self, member_sql, ps) ==
    LET need_null_check == is_need_null_chek(self, FALSE)
        a == filter_and_allocate_values(self, ps)
    IN  Template("in_where", <<member_sql>> \o a.toks, <<need_null_check>>, a.params, <<>>)

not_in_where(self, member_sql, ps) ==
    LET need_null_check == is_need_null_chek(self, TRUE)
        a == filter_and_allocate_values(self, ps)
    IN  Template("not_in_where", <<member_sql>> \o a.toks, <<need_null_check>>,
                 a.params, <<>>)

set_where(self, member_sql, ps) ==
    Template("set_where", <<member_sql>>, <<>>, ps, <<>>)

not_set_where(self, member_sql, ps) ==
    Template("not_set_where", <<member_sql>>, <<>>, ps, <<>>)

gt_where(self, member_sql, ps) ==
    LET p == first_param(self, ps)
    IN  IF ~p.ok THEN RErr(ErrOneParam, 0, p.params, <<>>)
        ELSE Template("gt", <<member_sql, p.tok>>, <<>>, p.params, <<>>)

gte_where(self, member_sql, ps) ==
    LET p == first_param(self, ps)
    IN  IF ~p.ok THEN RErr(ErrOneParam, 0, p.params, <<>>)
        ELSE Template("gte", <<member_sql, p.tok>>, <<>>, p.params, <<>>)

lt_where(self, member_sql, ps) ==
    LET p == first_param(self, ps)
    IN  IF ~p.ok THEN RErr(ErrOneParam, 0, p.params, <<>>)
        ELSE Template("lt", <<member_sql, p.tok>>, <<>>, p.params, <<>>)

lte_where(self, member_sql, ps) ==
    LET p == first_param(self, ps)
    IN  IF ~p.ok THEN RErr(ErrOneParam, 0, p.params, <<>>)
        ELSE Template("lte", <<member_sql, p.tok>>, <<>>, p.params, <<>>)

\* like_parts.join(logical_symbol)
RECURSIVE join(_, _)
join(parts, sep) ==
    IF Len(parts) <= 1 THEN parts
    ELSE <<Head(parts), sep>> \o join(Tail(parts), sep)

like_or_where(self, member_sql, not, start_wild, end_wild, ps) ==
    LET a == filter_and_allocate_values(self, ps)
        ilike == [i \in 1..Len(a.toks) |->
                     [fn |-> "ilike", args |-> <<member_sql, a.toks[i]>>,
                      flags |-> <<start_wild, end_wild, not>>]]
        like_parts == [i \in 1..Len(a.toks) |-> Tok("rendered", <<"ilike">>, i)]
        logical_symbol == IF not THEN Tok("text", <<" AND ">>, 0)
                          ELSE Tok("text", <<" OR ">>, 0)
        null_check == IF is_need_null_chek(self, not)
                      THEN Template("or_is_null_check", <<member_sql>>, <<>>,
                                    a.params, ilike)
                      ELSE ROk(<<>>, a.params, ilike)
    IN  ROk(<<Tok("text", <<"(">>, 0)>> \o join(like_parts, logical_symbol)
               \o <<Tok("text", <<")">>, 0)>> \o null_check.out,
            null_check.params, null_check.calls)

to_sql(self, ps, prec, tzFail) ==
    LET member_sql == evaluate_with_context(self.member_evaluator)
        op == self.filter_operator
    IN  CASE op = "Equal" -> equals_where(self, member_sql, ps)
          [] op = "NotEqual" -> not_equals_where(self, member_sql, ps)
          [] op = "InDateRange" -> in_date_range(self, member_sql, ps, prec, tzFail)
          [] op = "InDateRangeExtended" ->
                in_date_range_extended(self, member_sql, ps, prec, tzFail)
          [] op = "In" -> in_where(self, member_sql, ps)
          [] op = "NotIn" -> not_in_where(self, member_sql, ps)
          [] op = "Set" -> set_where(self, member_sql, ps)
          [] op = "NotSet" -> not_set_where(self, member_sql, ps)
          [] op = "Gt" -> gt_where(self, member_sql, ps)
          [] op = "Gte" -> gte_where(self, member_sql, ps)
          [] op = "Lt" -> lt_where(self, member_sql, ps)
          [] op = "Lte" -> lte_where(self, member_sql, ps)
          [] op = "Contains" -> like_or_where(self, member_sql, FALSE, TRUE, TRUE, ps)
          [] op = "NotContains" -> like_or_where(self, member_sql, TRUE, TRUE, TRUE, ps)
          [] op = "StartsWith" -> like_or_where(self, member_sql, FALSE, FALSE, TRUE, ps)
          [] op = "NotStartsWith" -> like_or_where(self, member_sql, TRUE, FALSE, TRUE, ps)
          [] op = "EndsWith" -> like_or_where(self, member_sql, FALSE, TRUE, FALSE, ps)
          [] op = "NotEndsWith" -> like_or_where(self, member_sql, TRUE, TRUE, FALSE, ps)

(* ---------------------------- inputs ----------------------------------- *)
Precisions == {3, 6, 9}

Members == {"orders.created_at", "orders.status"}

SqlLits == {Date, Unbounded, TwoDay}

OptLits(lits) == {None} \cup {Some(l) : l \in lits}

ValueLists(lits, n) == UNION {[1..k -> OptLits(lits)] : k \in 0..n}

SqlNodes ==
    {BaseFilter("orders.created_at", "Dimension", op, vals) :
        op \in FilterOperator, vals \in ValueLists(SqlLits, MaxVals)}

ChangeVals == {<<>>, <<Some(TwoDay)>>, <<Some(Date), None>>}

ChangeInitNodes ==
    {BaseFilter(m, ft, "Equal", <<Some(TwoDay)>>) : m \in Members, ft \in FilterType}

Subst(s, i, c) == [s EXCEPT ![i] = c]

DateBases == {Date, TimeMs999, TimeMs123, TimeUs}

MutChars == {"0", "9", "x", "-", ".", ArabicThree}

Mutations ==
    UNION {{Subst(b, i, c) : i \in 1..Len(b), c \in MutChars} : b \in DateBases}

DateInputs ==
    UNION {DateBases, Mutations,
           {Append(b, "0") : b \in DateBases},
           {SubSeq(b, 1, Len(b) - 1) : b \in DateBases},
           {NextWeek, TwoDay, Unbounded, <<>>}}

(* ---------------------------- state machine ---------------------------- *)
NoFmt == [date |-> <<>>, fn |-> "none", res |-> FmtOk(<<>>)]

NoLast ==
    [kind |-> "none", self |-> 0, before |-> <<>>, res |-> ROk(<<>>, <<>>, <<>>),
     op |-> "Equal", vals |-> <<>>, ret |-> 0, tz |-> {}]

\* BaseFilter::to_sql on node i.
ToSql(i, tzFail) ==
    /\ ncalls < MaxCalls
    /\ LET res == to_sql(nodes[i], params, precision, tzFail)
       IN  /\ params' = res.params
           /\ last' = [kind |-> "to_sql", self |-> i, before |-> params, res |-> res,
                       op |-> nodes[i].filter_operator, vals |-> <<>>, ret |-> 0,
                       tz |-> tzFail]
    /\ ncalls' = ncalls + 1
    /\ UNCHANGED <<nodes, precision, fmt>>

\* BaseFilter::change_operator on node i: the new node is kept next to it.
ChangeOperator(i, op, vals) ==
    /\ Len(nodes) < MaxNodes
    /\ nodes' = Append(nodes, change_operator(nodes[i], op, vals))
    /\ last' = [kind |-> "change_operator", self |-> i, before |-> params,
                res |-> ROk(<<>>, <<>>, <<>>), op |-> op, vals |-> vals,
                ret |-> Len(nodes) + 1, tz |-> {}]
    /\ UNCHANGED <<params, precision, ncalls, fmt>>

FormatFrom ==
    /\ fmt.fn = "none"
    /\ fmt' = [fmt EXCEPT !.fn = "from", !.res = format_from_date(fmt.date, precision)]
    /\ UNCHANGED <<nodes, params, precision, ncalls, last>>

FormatTo ==
    /\ fmt.fn = "none"
    /\ fmt' = [fmt EXCEPT !.fn = "to", !.res = format_to_date(fmt.date, precision)]
    /\ UNCHANGED <<nodes, params, precision, ncalls, last>>

\* One filter node compiled against one statement's allocator.
Init ==
    /\ nodes \in {<<n>> : n \in SqlNodes}
    /\ params = <<>>
    /\ precision \in Precisions
    /\ ncalls = 0
    /\ last = NoLast
    /\ fmt = NoFmt

Next == \E i \in DOMAIN nodes, tzFail \in SUBSET {"from", "to"} : ToSql(i, tzFail)

Spec == Init /\ [][Next]_vars

\* Nodes derived from one another by change_operator, and compiled (here the
\* time zone conversion always succeeds).
InitChange ==
    /\ nodes \in {<<n>> : n \in ChangeInitNodes}
    /\ params = <<>>
    /\ precision \in {3, 6}
    /\ ncalls = 0
    /\ last = NoLast
    /\ fmt = NoFmt

NextChange ==
    \/ \E i \in DOMAIN nodes, op \in FilterOperator, vals \in ChangeVals :
          ChangeOperator(i, op, vals)
    \/ \E i \in DOMAIN nodes : ToSql(i, {})

SpecChange == InitChange /\ [][NextChange]_vars

\* The date normaliser applied to one literal.
InitDate ==
    /\ nodes = <<>>
    /\ params = <<>>
    /\ precision \in Precisions
    /\ ncalls = 0
    /\ last = NoLast
    /\ fmt \in {[date |-> d, fn |-> "none", res |-> FmtOk(<<>>)] : d \in DateInputs}

NextDate == FormatFrom \/ FormatTo

SpecDate == InitDate /\ [][NextDate]_vars

(* ---------------------------- properties ------------------------------- *)
Called == last.kind = "to_sql"

Self == nodes[last.self]

MemberTok == Tok("member", <<Self.member_evaluator>>, 0)

ContainsNone(vs) == \E i \in 1..Len(vs) : vs[i] = None

PatternOps ==
    {"Contains", "NotContains", "StartsWith", "NotStartsWith", "EndsWith", "NotEndsWith"}

NegatedOps == {"NotContains", "NotStartsWith", "NotEndsWith"}

ScalarOps == {"Gt", "Gte", "Lt", "Lte", "Equal", "NotEqual"}

DateOps == {"InDateRange", "InDateRangeExtended"}

\* The tokens of a pattern-match fragment that follow its closing parenthesis.
GuardToks(out) ==
    LET close == CHOOSE i \in 1..Len(out) : out[i] = Tok("text", <<")">>, 0)
    IN  SubSeq(out, close + 1, Len(out))

IsOrIsNullGuard(g, calls) ==
    /\ Len(g) = 1
    /\ g[1].k = "rendered"
    /\ g[1].s = <<"or_is_null_check">>
    /\ calls[g[1].n].fn = "or_is_null_check"
    /\ calls[g[1].n].args = <<MemberTok>>

C2_NullTest ==
    (Called /\ Self.filter_operator \in {"Equal", "NotEqual"} /\ Self.values = <<None>>) =>
        LET fn == IF Self.filter_operator = "Equal" THEN "not_set_where" ELSE "set_where"
        IN  /\ last.res.ok
            /\ last.res.calls = <<[fn |-> fn, args |-> <<MemberTok>>, flags |-> <<>>]>>
            /\ last.res.out = <<Tok("rendered", <<fn>>, 1)>>
            /\ params = last.before

C2_Witness ==
    /\ Called
    /\ Self.filter_operator = "NotEqual"
    /\ Self.values = <<None>>
    /\ last.res.calls[1].fn = "set_where"

\* C3: Equal with more than one value renders through in_where, whose list
\* holds one freshly allocated placeholder per non-None value, in input order;
\* None elements allocate nothing.
C3_InList ==
    (Called /\ Self.filter_operator = "Equal" /\ Len(Self.values) > 1) =>
        LET nn == SelectSeq(Self.values, LAMBDA v : v.some)
            base == Len(last.before)
        IN  /\ last.res.ok
            /\ Len(last.res.calls) = 1
            /\ last.res.calls[1].fn = "in_where"
            /\ last.res.calls[1].args =
                  <<MemberTok>> \o [j \in 1..Len(nn) |-> Tok("param", <<>>, base + j - 1)]
            /\ last.res.out = <<Tok("rendered", <<"in_where">>, 1)>>
            /\ params = last.before \o [j \in 1..Len(nn) |-> nn[j].s]

C3_Witness ==
    /\ Called
    /\ Self.filter_operator = "Equal"
    /\ Self.values = <<Some(Date), None, Some(TwoDay)>>
    /\ last.before # <<>>
    /\ Len(last.res.calls[1].args) = 3

\* C4: an empty values list with Gt, Gte, Lt, Lte, Equal or NotEqual fails
\* with the argument-count error; no fragment, no renderer call, no parameter.
C4_EmptyScalarFails ==
    (Called /\ Self.filter_operator \in ScalarOps /\ Self.values = <<>>) =>
        /\ ~last.res.ok
        /\ last.res.err = ErrOneParam
        /\ last.res.out = <<>>
        /\ last.res.calls = <<>>
        /\ params = last.before

C4_Witness ==
    /\ Called
    /\ Self.filter_operator = "Lte"
    /\ Self.values = <<>>
    /\ last.res.err = ErrOneParam

\* Whether values[k] (1-based) asks for an interval extension.
Extends(vs, k) == Len(vs) >= k /\ vs[k].some /\ vs[k].s # Unbounded

CallsOf(fn) == {j \in 1..Len(last.res.calls) : last.res.calls[j].fn = fn}

\* C5: a compiled InDateRangeExtended passes the lower bound through
\* sub_interval iff values[2] exists, is Some and is not "unbounded", and the
\* upper bound through add_interval iff values[3] exists, is Some and is not
\* "unbounded", each independently of the other; a bound that is not extended
\* reaches time_range_filter exactly as in_date_range passes it.
C5_IndependentExtension ==
    (Called /\ Self.filter_operator = "InDateRangeExtended") =>
        LET vs == Self.values
            calls == last.res.calls
            from == Tok("tsparam", <<>>, Len(last.before))
            to == Tok("tsparam", <<>>, Len(last.before) + 1)
            plain == in_date_range(Self, MemberTok, last.before, precision, {})
        IN  IF ~last.res.ok THEN calls = <<>>
            ELSE LET trf == calls[Len(calls)]
                 IN  /\ trf.fn = "time_range_filter"
                     /\ plain.ok
                     /\ Cardinality(CallsOf("sub_interval")) = (IF Extends(vs, 3) THEN 1 ELSE 0)
                     /\ Cardinality(CallsOf("add_interval")) = (IF Extends(vs, 4) THEN 1 ELSE 0)
                     /\ \A j \in CallsOf("sub_interval") :
                           /\ calls[j].args = <<from, Tok("raw", vs[3].s, 0)>>
                           /\ trf.args[2] = Tok("rendered", <<"sub_interval">>, j)
                     /\ \A j \in CallsOf("add_interval") :
                           /\ calls[j].args = <<to, Tok("raw", vs[4].s, 0)>>
                           /\ trf.args[3] = Tok("rendered", <<"add_interval">>, j)
                     /\ ~Extends(vs, 3) =>
                           (trf.args[2] = from /\ trf.args[2] = plain.calls[1].args[2])
                     /\ ~Extends(vs, 4) =>
                           (trf.args[3] = to /\ trf.args[3] = plain.calls[1].args[3])

C5_Witness ==
    /\ Called
    /\ Self.filter_operator = "InDateRangeExtended"
    /\ Self.values = <<Some(Date), Some(Date), Some(Unbounded), Some(TwoDay)>>
    /\ last.res.ok
    /\ CallsOf("add_interval") # {}
    /\ CallsOf("sub_interval") = {}

\* C8 as stated: no argument handed to a template renderer is a literal of
\* values taken verbatim.
C8_NoRawLiteral ==
    Called =>
        \A j \in 1..Len(last.res.calls) :
            \A a \in 1..Len(last.res.calls[j].args) :
                last.res.calls[j].args[a].k # "raw"

\* C8 amended: every argument a renderer receives is the resolved member SQL,
\* a placeholder allocated in this call (possibly with the timestamp cast),
\* the NULL keyword or the output of an earlier renderer, except the second
\* argument of sub_interval / add_interval, which is the interval literal
\* values[2] / values[3] of an InDateRangeExtended node, verbatim.
C8_RawOnlyInterval ==
    Called =>
        \A j \in 1..Len(last.res.calls) :
            \A a \in 1..Len(last.res.calls[j].args) :
                LET fn == last.res.calls[j].fn
                    arg == last.res.calls[j].args[a]
                IN  CASE arg.k = "member" -> arg = MemberTok
                      [] arg.k \in {"param", "tsparam"} ->
                            arg.n >= Len(last.before) /\ arg.n < Len(params)
                      [] arg.k = "null" -> TRUE
                      [] arg.k = "rendered" -> arg.n < j /\ <<last.res.calls[arg.n].fn>> = arg.s
                      [] arg.k = "raw" ->
                            /\ Self.filter_operator = "InDateRangeExtended"
                            /\ a = 2
                            /\ \/ fn = "sub_interval" /\ arg.s = Self.values[3].s
                               \/ fn = "add_interval" /\ arg.s = Self.values[4].s
                      [] OTHER -> FALSE

C8_Witness ==
    /\ Called
    /\ Self.filter_operator = "InDateRangeExtended"
    /\ \E j \in CallsOf("sub_interval") : last.res.calls[j].args[2] = Tok("raw", TwoDay, 0)

\* C9 as stated: InDateRange with a values list of any length other than 2
\* fails with the argument-count error naming the count; only length 2 compiles.
C9_ExactlyTwo ==
    (Called /\ Self.filter_operator = "InDateRange") =>
        /\ Len(Self.values) # 2 =>
              (~last.res.ok /\ last.res.err = ErrDateArgCount
                  /\ last.res.got = Len(Self.values))
        /\ last.res.ok => Len(Self.values) = 2

\* C9 amended: InDateRange requires at least 2 values: to_sql fails with the
\* argument-count error, naming the actual count, exactly when the list has
\* fewer than 2 values; a list of length 2 or more can compile to a range
\* predicate over its first two values.
C9_AtLeastTwo ==
    (Called /\ Self.filter_operator = "InDateRange") =>
        /\ Len(Self.values) < 2 <=> (~last.res.ok /\ last.res.err = ErrDateArgCount)
        /\ last.res.err = ErrDateArgCount => last.res.got = Len(Self.values)
        /\ last.res.ok =>
              /\ Len(Self.values) >= 2
              /\ last.res.calls =
                    <<[fn |-> "time_range_filter",
                       args |-> <<MemberTok, Tok("tsparam", <<>>, Len(last.before)),
                                  Tok("tsparam", <<>>, Len(last.before) + 1)>>,
                       flags |-> <<>>]>>
              /\ last.res.out = <<Tok("rendered", <<"time_range_filter">>, 1)>>

C9_Witness ==
    /\ Called
    /\ Self.filter_operator = "InDateRange"
    /\ Len(Self.values) = 3
    /\ last.res.ok

\* C10: when the date-bound computation of InDateRange / InDateRangeExtended
\* fails, the allocator is as it was before the call; when it succeeds,
\* exactly two parameters are allocated, the converted from bound and then
\* the converted to bound.
C10_AllocateAfterValidation ==
    (Called /\ Self.filter_operator \in DateOps) =>
        IF last.res.ok
        THEN params = last.before \o
                <<in_db_time_zone(format_from_date(Self.values[1].s, precision).s),
                  in_db_time_zone(format_to_date(Self.values[2].s, precision).s)>>
        ELSE /\ params = last.before
             /\ last.res.err \in {ErrDateArgCount, ErrDateArgInvalid, ErrPrecision,
                                  ErrDateFormat, ErrTimeZone}

C10_Witness ==
    /\ Called
    /\ Self.filter_operator \in DateOps
    /\ Len(Self.values) >= 2
    /\ Self.values[1] = Some(Date)
    /\ ~last.res.ok
    /\ last.res.err = ErrTimeZone
    /\ last.tz = {"to"}
    /\ last.before # <<>>

\* C7: the node returned by n.change_operator(op, vals) reports exactly op
\* and vals, keeps n's member and filter kind, and no existing node is ever
\* changed by a change_operator or to_sql call.
C7_ChangeOperator ==
    /\ [](last.kind = "change_operator" =>
            /\ filter_operator(nodes[last.ret]) = last.op
            /\ values(nodes[last.ret]) = last.vals
            /\ nodes[last.ret].member_evaluator = nodes[last.self].member_evaluator
            /\ nodes[last.ret].filter_type = nodes[last.self].filter_type)
    /\ [][\A i \in DOMAIN nodes : i \in DOMAIN nodes' /\ nodes'[i] = nodes[i]]_vars

C7_Witness ==
    /\ last.kind = "change_operator"
    /\ ncalls > 0
    /\ nodes[last.ret].filter_operator # nodes[last.self].filter_operator
    /\ nodes[last.ret].values # nodes[last.self].values
    /\ nodes[last.ret].values = <<Some(Date), None>>

\* C6: format_from_date / format_to_date at precision p in {3, 6}: a bare
\* YYYY-MM-DD date gets T00:00:00. and p zeros (from) or T23:59:59. and p
\* nines (to); at precision 6 a 3-digit-fraction timestamp gets 000 appended,
\* or 999 as a to bound ending in .999; a timestamp whose fraction has p
\* digits is unchanged; any other shape is the date-format error and any
\* other precision the precision error.
C6_Normalization ==
    fmt.fn # "none" =>
        LET d == fmt.date
            isTo == fmt.fn = "to"
        IN  IF precision \notin {3, 6} THEN fmt.res = FmtErr(ErrPrecision)
            ELSE IF is_match(DATE_RE, d)
            THEN fmt.res = FmtOk(d \o (IF isTo
                        THEN <<"T", "2", "3", ":", "5", "9", ":", "5", "9", ".">>
                                \o Repeat("9", precision)
                        ELSE <<"T", "0", "0", ":", "0", "0", ":", "0", "0", ".">>
                                \o Repeat("0", precision)))
            ELSE IF is_match(DATE_TIME_LOCAL_MS_RE, d)
            THEN IF precision = 3 THEN fmt.res = FmtOk(d)
                 ELSE IF isTo /\ EndsWith(d, <<".", "9", "9", "9">>)
                      THEN fmt.res = FmtOk(d \o <<"9", "9", "9">>)
                      ELSE fmt.res = FmtOk(d \o <<"0", "0", "0">>)
            ELSE IF is_match(DATE_TIME_LOCAL_U_RE, d) /\ precision = 6
            THEN fmt.res = FmtOk(d)
            ELSE fmt.res = FmtErr(ErrDateFormat)

====
